---- MODULE Spec2Model ----
(***************************************************************************)
(* MetricDefinitionsView (generator/views/metric_definitions_view.py):     *)
(* the view generated for the metric-hub metrics of one data source.       *)
(*                                                                         *)
(* The state is the metric-hub registry (MetricsConfigLoader.configs), the *)
(* view object (namespace, name, tables) and what the last to_lookml call  *)
(* returned.  Python values are modelled as follows: a str is a TLA+       *)
(* string, None of an Optional object is the empty sequence <<>> and a     *)
(* present object x is <<x>>, None or '' of an optional str is "", a list  *)
(* is a sequence, a dict with fixed keys is a record, the empty dict {} is *)
(* the empty function <<>>, and a dict iterated with items() is the        *)
(* sequence of its values in insertion order.                              *)
(***************************************************************************)
EXTENDS Naturals, Sequences, FiniteSets, TLC

VARIABLES configs, namespace, name, tables, calls, result, previous,
          base_resolved, raised, discovered

vars == <<configs, namespace, name, tables, calls, result, previous,
          base_resolved, raised, discovered>>

(***************************************************************************)
(* Bounds of the model.                                                    *)
(***************************************************************************)
MaxCalls == 2

MaxTables == 1

(***************************************************************************)
(* Strings.                                                                *)
(***************************************************************************)
StartsWith(s, p) == Len(s) >= Len(p) /\ SubSeq(s, 1, Len(p)) = p

\* re.sub("^" + prefix, "", s): the anchored pattern matches at most once,
\* at the start of s.
re_sub_prefix(prefix, s) ==
    IF StartsWith(s, prefix) THEN SubSeq(s, Len(prefix) + 1, Len(s)) ELSE s

\* sep.join(list) of Python, list a sequence of strings.
RECURSIVE join(_, _)
join(sep, list) ==
    IF Len(list) = 0 THEN ""
    ELSE IF Len(list) = 1 THEN list[1]
    ELSE list[1] \o sep \o join(sep, Tail(list))

\* x or default, for an optional str.
Or(x, default) == IF x # "" THEN x ELSE default

\* dict[key] = value on a dict modelled as a record.
Put(dict, key, value) ==
    [k \in DOMAIN dict \cup {key} |-> IF k = key THEN value ELSE dict[k]]

\* dict.get(key, default)
Get(dict, key, default) == IF key \in DOMAIN dict THEN dict[key] ELSE default

\* The names of a list of field descriptors, as a set.
Names(fields) == {fields[i].name : i \in DOMAIN fields}

\* The names of a list of field descriptors, in order.
NameList(fields) == [i \in DOMAIN fields |-> fields[i].name]

\* Whether value is an element of the list.
In(value, list) == \E i \in DOMAIN list : list[i] = value

(***************************************************************************)
(* The universe of the registry and of the view's inputs.                  *)
(***************************************************************************)
RegisteredNamespace == "firefox_desktop"

Namespaces == {RegisteredNamespace, "fenix"}

\* The metric slugs, in the order of the definitions mapping.  uri_count is
\* also the name of a base-table dimension.  Slugs are names other than the
\* reserved column client_id and other than a measure name of another slug.
Slugs == <<"active_hours", "uri_count">>

DataSourceNames == {"ds1", "ds2"}

SelectExpressions == {"", "{{agg_sum('n')}}"}

MetricTypes == {"scalar", "histogram"}

StatisticsChoices ==
    {<<>>, <<"sum", "client_count">>, <<"client_count", "median">>}

FriendlyName(slug) == IF slug = "active_hours" THEN "Active Hours" ELSE ""

Metrics(slug) ==
    {[slug |-> slug, select_expression |-> e, data_source |-> [name |-> d],
      type |-> t, statistics |-> st, friendly_name |-> FriendlyName(slug),
      description |-> ""] :
        e \in SelectExpressions, d \in DataSourceNames, t \in MetricTypes,
        st \in StatisticsChoices}

\* A definitions mapping: for each slug either no entry or one metric, the
\* entries in the order of Slugs.
RECURSIVE DefinitionMaps(_)
DefinitionMaps(slugs) ==
    IF Len(slugs) = 0 THEN {<<>>}
    ELSE LET rest == DefinitionMaps(Tail(slugs))
         IN  rest \cup {<<m>> \o r : m \in Metrics(Head(slugs)), r \in rest}

DataSource(n, sdc, cic) ==
    [name |-> n, submission_date_column |-> sdc, client_id_column |-> cic,
     from_expression |-> "mozdata.{dataset}." \o n]

DataSourceMaps ==
    {<<DataSource("ds2", "", "")>>,
     <<DataSource("ds1", "", ""), DataSource("ds2", "", "")>>,
     <<DataSource("ds1", "activity_date", "profile_id"),
       DataSource("ds2", "", "")>>}

Registries ==
    {[platform |-> <<>>, data_sources |-> <<>>]}
    \cup {[platform |-> <<[metrics |-> [definitions |-> d]]>>,
           data_sources |-> s] :
             d \in DefinitionMaps(Slugs), s \in DataSourceMaps}

Prefix == "metric_definitions_"

ViewNames == {Prefix \o "ds1", Prefix \o "ds2", "ds1"}

TableNames == {"mozdata.firefox_desktop.clients", "mozdata.firefox_desktop.events"}

TableRefs == {[table |-> t, channel |-> "release"] : t \in TableNames}

RECURSIVE SeqsUpTo(_, _)
SeqsUpTo(S, n) ==
    IF n = 0 THEN {<<>>}
    ELSE LET shorter == SeqsUpTo(S, n - 1)
         IN  shorter \cup {Append(s, x) : s \in shorter, x \in S}

TableLists == SeqsUpTo(TableRefs, MaxTables)

ViewDicts ==
    {[type |-> "metric_definitions_view"]}
    \cup {[type |-> "metric_definitions_view", tables |-> t] : t \in TableLists}

(***************************************************************************)
(* The registry's lookups (MetricsConfigLoader.configs).                   *)
(***************************************************************************)
get_platform_definitions(ns) ==
    IF ns = RegisteredNamespace THEN configs.platform ELSE <<>>

get_data_source_definition(slug, ns) ==
    IF ns = RegisteredNamespace
    THEN LET Named(d) == d.name = slug
         IN  SelectSeq(configs.data_sources, Named)
    ELSE <<>>

get_metric_definition(slug, ns) ==
    IF get_platform_definitions(ns) = <<>> THEN <<>>
    ELSE LET Named(m) == m.slug = slug
         IN  SelectSeq(get_platform_definitions(ns)[1].metrics.definitions,
                       Named)

get_data_source_sql(slug, ns) ==
    get_data_source_definition(slug, ns)[1].from_expression

\* get_env().from_string(expression).render(): the template's macro calls
\* are expanded to SQL.
render(expression) ==
    IF expression = "{{agg_sum('n')}}" THEN "COALESCE(SUM(n), 0)"
    ELSE expression

\* template.format(dataset=value): the {dataset} placeholder is replaced.
RECURSIVE format_dataset(_, _)
format_dataset(template, value) ==
    IF Len(template) = 0 THEN ""
    ELSE IF StartsWith(template, "{dataset}")
         THEN value \o format_dataset(SubSeq(template, 10, Len(template)),
                                      value)
         ELSE SubSeq(template, 1, 1)
              \o format_dataset(SubSeq(template, 2, Len(template)), value)

\* lookml_utils.slug_to_title
slug_to_title(slug) ==
    CASE slug = "active_hours" -> "Active Hours"
      [] slug = "uri_count" -> "Uri Count"
      [] OTHER -> slug

(***************************************************************************)
(* The base-table resolver: TableView(...).to_lookml(...).                 *)
(***************************************************************************)
BaseDimension(n, t) ==
    [name |-> n, type |-> t, sql |-> "${TABLE}." \o n, label |-> n]

BaseGroup(n) ==
    [name |-> n, type |-> "time", sql |-> "${TABLE}." \o n \o "_date",
     label |-> n]

TableView_to_lookml(ns, view_name, view_tables) ==
    IF view_tables[1].table = "mozdata.firefox_desktop.clients"
    THEN [views |-> <<[name |-> view_name,
                       dimensions |->
                           <<BaseDimension("client_id", "string"),
                             BaseDimension("country", "string"),
                             BaseDimension("uri_count", "number"),
                             BaseDimension("channel", "string")>>,
                       dimension_groups |->
                           <<BaseGroup("submission"),
                             BaseGroup("first_seen")>>]>>]
    ELSE [views |-> <<[name |-> view_name,
                       dimensions |->
                           <<BaseDimension("submission_date", "date"),
                             BaseDimension("uri_count", "number")>>,
                       dimension_groups |->
                           <<BaseGroup("first_run")>>]>>]

(***************************************************************************)
(* MetricDefinitionsView                                                   *)
(***************************************************************************)
\* data_source_name = re.sub("^metric_definitions_", "", self.name)
data_source_name(nm) == re_sub_prefix(Prefix, nm)

\* The namespace's metric definitions, in items() order.
definitions_items(ns) == get_platform_definitions(ns)[1].metrics.definitions

\* Mutant of metric_definitions: the filter forgets the histogram test.
metric_definitions_any_type(ns, nm) ==
    LET Applicable(metric) ==
            /\ metric.select_expression # ""
            /\ metric.data_source.name = data_source_name(nm)
        Column(metric) ==
            render(metric.select_expression) \o " AS " \o metric.slug \o ",\n"
        applicable == SelectSeq(definitions_items(ns), Applicable)
    IN  [i \in DOMAIN applicable |-> Column(applicable[i])]

\* The SQL columns of to_lookml: one "<expression> AS <slug>,\n" per metric
\* that passes the filter.
metric_definitions(ns, nm) ==
    LET Applicable(metric) ==
            /\ metric.select_expression # ""
            /\ metric.data_source.name = data_source_name(nm)
            /\ metric.type # "histogram"
        Column(metric) ==
            render(metric.select_expression) \o " AS " \o metric.slug \o ",\n"
        applicable == SelectSeq(definitions_items(ns), Applicable)
    IN  [i \in DOMAIN applicable |-> Column(applicable[i])]

\* The names never taken over from the base view.
ignore_base_fields(ns, nm) ==
    LET Applicable(metric) ==
            /\ metric.select_expression # ""
            /\ metric.data_source.name = data_source_name(nm)
            /\ metric.type # "histogram"
        Slug(metric) == metric.slug
        applicable == SelectSeq(definitions_items(ns), Applicable)
    IN  <<"client_id", "submission_date", "submission", "first_run">>
        \o [i \in DOMAIN applicable |-> Slug(applicable[i])]

\* get_dimensions raises AttributeError when the namespace has no platform
\* definitions (None.metrics).
get_dimensions_raises(ns) == get_platform_definitions(ns) = <<>>

\* Mutant of get_dimensions: the filter forgets the histogram test.
get_dimensions_any_type(ns, nm) ==
    LET Applicable(metric) ==
            /\ metric.select_expression # ""
            /\ metric.data_source.name = data_source_name(nm)
        Dimension(metric) ==
            [name |-> metric.slug,
             group_label |-> "Metrics",
             label |-> Or(metric.friendly_name, slug_to_title(metric.slug)),
             description |-> Or(metric.description, ""),
             type |-> "number",
             sql |-> "${TABLE}." \o metric.slug]
        applicable == SelectSeq(definitions_items(ns), Applicable)
    IN  <<[name |-> "client_id",
           type |-> "string",
           sql |-> "SAFE_CAST(${TABLE}.client_id AS STRING)",
           label |-> "Client ID",
           primary_key |-> "yes",
           group_label |-> "Base Fields",
           description |-> "Unique client identifier"]>>
        \o [i \in DOMAIN applicable |-> Dimension(applicable[i])]

get_dimensions(ns, nm) ==
    LET Applicable(metric) ==
            /\ metric.select_expression # ""
            /\ metric.data_source.name = data_source_name(nm)
            /\ metric.type # "histogram"
        Dimension(metric) ==
            [name |-> metric.slug,
             group_label |-> "Metrics",
             label |-> Or(metric.friendly_name, slug_to_title(metric.slug)),
             description |-> Or(metric.description, ""),
             type |-> "number",
             sql |-> "${TABLE}." \o metric.slug]
        applicable == SelectSeq(definitions_items(ns), Applicable)
    IN  <<[name |-> "client_id",
           type |-> "string",
           sql |-> "SAFE_CAST(${TABLE}.client_id AS STRING)",
           label |-> "Client ID",
           primary_key |-> "yes",
           group_label |-> "Base Fields",
           description |-> "Unique client identifier"]>>
        \o [i \in DOMAIN applicable |-> Dimension(applicable[i])]

get_dimension_groups ==
    <<[name |-> "submission",
       type |-> "time",
       group_label |-> "Base Fields",
       sql |-> "CAST(${TABLE}.analysis_basis AS TIMESTAMP)",
       label |-> "Submission",
       timeframes |-> <<"raw", "date", "week", "month", "quarter", "year">>]>>

\* Mutant of statistic_measures: the second branch is an else, so that any
\* statistic other than sum yields a client count.
statistic_measures_else_client_count(dimension, statistic_slug) ==
    IF statistic_slug = "sum"
    THEN <<[name |-> dimension.name \o "_" \o statistic_slug,
            type |-> "sum",
            sql |-> "${TABLE}." \o dimension.name,
            label |-> dimension.label \o " Sum",
            group_label |-> "Statistics",
            description |-> "Sum of " \o dimension.label]>>
    ELSE <<[name |-> dimension.name \o "_" \o statistic_slug,
            type |-> "count_distinct",
            label |-> dimension.label \o " Client Count",
            group_label |-> "Statistics",
            sql |-> "IF(SAFE_CAST(${TABLE}." \o dimension.name \o " AS BOOL), "
                    \o "${TABLE}.client_id, SAFE_CAST(NULL AS STRING))",
            description |-> "Number of clients with " \o dimension.label]>>

\* The measures of one statistic of one dimension: none for a statistic
\* that is neither sum nor client_count.
statistic_measures(dimension, statistic_slug) ==
    IF statistic_slug = "sum"
    THEN <<[name |-> dimension.name \o "_" \o statistic_slug,
            type |-> "sum",
            sql |-> "${TABLE}." \o dimension.name,
            label |-> dimension.label \o " Sum",
            group_label |-> "Statistics",
            description |-> "Sum of " \o dimension.label]>>
    ELSE IF statistic_slug = "client_count"
    THEN <<[name |-> dimension.name \o "_" \o statistic_slug,
            type |-> "count_distinct",
            label |-> dimension.label \o " Client Count",
            group_label |-> "Statistics",
            sql |-> "IF(SAFE_CAST(${TABLE}." \o dimension.name \o " AS BOOL), "
                    \o "${TABLE}.client_id, SAFE_CAST(NULL AS STRING))",
            description |-> "Number of clients with " \o dimension.label]>>
    ELSE <<>>

RECURSIVE dimension_measures(_, _)
dimension_measures(dimension, statistics) ==
    IF Len(statistics) = 0 THEN <<>>
    ELSE statistic_measures(dimension, Head(statistics))
         \o dimension_measures(dimension, Tail(statistics))

RECURSIVE get_measures(_, _)
get_measures(ns, dimensions) ==
    IF Len(dimensions) = 0 THEN <<>>
    ELSE LET dimension == Head(dimensions)
             metric == get_metric_definition(dimension.name, ns)
         IN  (IF metric # <<>> /\ Len(metric[1].statistics) > 0
              THEN dimension_measures(dimension, metric[1].statistics)
              ELSE <<>>)
             \o get_measures(ns, Tail(dimensions))

\* Mutant of _get_sets: client_id is not left out of the set.
_get_sets_with_client_id(ns, nm) ==
    LET dimensions == get_dimensions(ns, nm)
        measures == get_measures(ns, dimensions)
    IN  <<[name |-> "metrics",
           fields |-> [i \in DOMAIN dimensions |-> dimensions[i].name]
                      \o [i \in DOMAIN measures |-> measures[i].name]]>>

_get_sets(ns, nm) ==
    LET dimensions == get_dimensions(ns, nm)
        measures == get_measures(ns, dimensions)
        NotClientId(dimension) == dimension.name # "client_id"
        listed == SelectSeq(dimensions, NotClientId)
    IN  <<[name |-> "metrics",
           fields |-> [i \in DOMAIN listed |-> listed[i].name]
                      \o [i \in DOMAIN measures |-> measures[i].name]]>>

_get_parameters ==
    <<[name |-> "aggregate_metrics_by",
       label |-> "Aggregate Client Metrics Per",
       type |-> "unquoted",
       default_value |-> "day",
       allowed_values |->
           <<[label |-> "Per Day", value |-> "day"],
             [label |-> "Per Week", value |-> "week"],
             [label |-> "Per Month", value |-> "month"],
             [label |-> "Per Quarter", value |-> "quarter"],
             [label |-> "Per Year", value |-> "year"],
             [label |-> "Overall", value |-> "overall"]>>]>>

\* base_view_lkml: None without tables, else the LookML of the first table.
base_view_lkml(ns, tbls) ==
    IF Len(tbls) > 0
    THEN <<TableView_to_lookml(
               ns, "base_view",
               <<[table |-> tbls[1].table, channel |-> "release"]>>)>>
    ELSE <<>>

\* base_view_fields: "<name>,\n" for each base dimension not ignored.
base_view_fields(ns, nm, tbls) ==
    IF Len(tbls) > 0
    THEN LET Kept(d) == ~In(d.name, ignore_base_fields(ns, nm))
             kept ==
                 SelectSeq(base_view_lkml(ns, tbls)[1].views[1].dimensions,
                           Kept)
         IN  [i \in DOMAIN kept |-> kept[i].name \o ",\n"]
    ELSE <<>>

\* join_base_view: the empty string without tables, else the INNER JOIN with
\* its own WHERE clause.  The SQL text is kept as the sequence of its pieces.
join_base_view(data_source_definition, tbls) ==
    IF Len(tbls) > 0
    THEN LET sdc == Or(data_source_definition.submission_date_column,
                       "submission_date")
             cic == Or(data_source_definition.client_id_column, "client_id")
         IN  <<"INNER JOIN", tbls[1].table \o " base",
               "ON",
               "base.submission_date = m." \o sdc, "AND",
               "base.client_id = m." \o cic,
               "WHERE", "base.submission_date", "BETWEEN",
               "SAFE_CAST(", "{% date_start " \o sdc \o " %}", "AS DATE)",
               "AND",
               "SAFE_CAST(", "{% date_end " \o sdc \o " %}", "AS DATE)">>
    ELSE <<>>

\* Mutant of bounding_keyword: WHERE whether or not there is a join.
bounding_keyword_always_where(join_base) == "WHERE"

\* 'AND' if join_base_view else 'WHERE'
bounding_keyword(join_base) == IF join_base # <<>> THEN "AND" ELSE "WHERE"

\* view_defn["derived_table"]["sql"], as the sequence of the template's
\* pieces in order.
derived_table_sql(ns, nm, tbls, data_source_definition) ==
    LET sdc == Or(data_source_definition.submission_date_column,
                  "submission_date")
        cic == Or(data_source_definition.client_id_column, "client_id")
        join_base == join_base_view(data_source_definition, tbls)
    IN  <<"SELECT",
          join("", metric_definitions(ns, nm)),
          join("base.", base_view_fields(ns, nm, tbls)),
          "m." \o cic \o " AS client_id,",
          "{% if aggregate_metrics_by._parameter_value == 'day' %}",
          "m." \o sdc \o " AS analysis_basis",
          "{% elsif aggregate_metrics_by._parameter_value == 'week' %}",
          "(FORMAT_DATE('%F', DATE_TRUNC(m." \o sdc
              \o ", WEEK(MONDAY)))) AS analysis_basis",
          "{% elsif aggregate_metrics_by._parameter_value == 'month' %}",
          "(FORMAT_DATE('%Y-%m', m." \o sdc \o ")) AS analysis_basis",
          "{% elsif aggregate_metrics_by._parameter_value == 'quarter' %}",
          "(FORMAT_DATE('%Y-%m', DATE_TRUNC(m." \o sdc
              \o ", QUARTER))) AS analysis_basis",
          "{% elsif aggregate_metrics_by._parameter_value == 'year' %}",
          "(EXTRACT(YEAR FROM m." \o sdc \o ")) AS analysis_basis",
          "{% else %}",
          "NULL as analysis_basis",
          "{% endif %}",
          "FROM",
          format_dataset(get_data_source_sql(data_source_name(nm), ns), ns),
          "AS m">>
        \o join_base
        \o <<bounding_keyword(join_base),
              "m.submission_date", "BETWEEN",
              "SAFE_CAST(", "{% date_start " \o sdc \o " %}", "AS DATE)",
              "AND",
              "SAFE_CAST(", "{% date_end " \o sdc \o " %}", "AS DATE)",
              "GROUP BY",
              join("", base_view_fields(ns, nm, tbls)),
              "client_id,",
              "analysis_basis">>

\* Mutant of appended_base_fields: the ignored names are not left out.
appended_base_fields_unfiltered(fields, ignored) ==
    LET Labelled(field) == Put(field, "group_label", "Base Fields")
    IN  [i \in DOMAIN fields |-> Labelled(fields[i])]

\* The base view's fields appended to the view's own: those not ignored,
\* each with group_label "Base Fields".
appended_base_fields(fields, ignored) ==
    LET Kept(field) == ~In(field.name, ignored)
        Labelled(field) == Put(field, "group_label", "Base Fields")
        kept == SelectSeq(fields, Kept)
    IN  [i \in DOMAIN kept |-> Labelled(kept[i])]

view_dimensions(ns, nm, tbls) ==
    get_dimensions(ns, nm)
    \o (IF base_view_lkml(ns, tbls) # <<>>
        THEN appended_base_fields(
                 base_view_lkml(ns, tbls)[1].views[1].dimensions,
                 ignore_base_fields(ns, nm))
        ELSE <<>>)

view_dimension_groups(ns, nm, tbls) ==
    get_dimension_groups
    \o (IF base_view_lkml(ns, tbls) # <<>>
        THEN appended_base_fields(
                 base_view_lkml(ns, tbls)[1].views[1].dimension_groups,
                 ignore_base_fields(ns, nm))
        ELSE <<>>)

\* Whether to_lookml gets as far as resolving the base table.
to_lookml_resolves_base(ns, nm, tbls) ==
    /\ get_platform_definitions(ns) # <<>>
    /\ get_data_source_definition(data_source_name(nm), ns) # <<>>
    /\ metric_definitions(ns, nm) # <<>>
    /\ Len(tbls) > 0

\* Whether to_lookml raises: past its early returns it calls get_dimensions.
to_lookml_raises(ns, nm, tbls) ==
    /\ get_platform_definitions(ns) # <<>>
    /\ get_data_source_definition(data_source_name(nm), ns) # <<>>
    /\ metric_definitions(ns, nm) # <<>>
    /\ get_dimensions_raises(ns)

to_lookml(ns, nm, tbls) ==
    IF get_platform_definitions(ns) = <<>> THEN <<>>
    ELSE IF get_data_source_definition(data_source_name(nm), ns) = <<>>
    THEN <<>>
    ELSE IF metric_definitions(ns, nm) = <<>> THEN <<>>
    ELSE [views |->
            <<[name |-> nm,
               derived_table |->
                   [sql |-> derived_table_sql(
                                ns, nm, tbls,
                                get_data_source_definition(
                                    data_source_name(nm), ns)[1])],
               dimensions |-> view_dimensions(ns, nm, tbls),
               dimension_groups |-> view_dimension_groups(ns, nm, tbls),
               measures |-> get_measures(ns, view_dimensions(ns, nm, tbls)),
               sets |-> _get_sets(ns, nm),
               parameters |-> _get_parameters]>>]

(***************************************************************************)
(* The state machine: views are constructed and rendered against a         *)
(* registry that was loaded before generation begins.                      *)
(***************************************************************************)
Init ==
    /\ configs \in Registries
    /\ namespace \in Namespaces
    /\ name \in ViewNames
    /\ tables \in TableLists
    /\ calls = 0
    /\ result = <<>>
    /\ previous = <<>>
    /\ base_resolved = FALSE
    /\ raised = FALSE
    /\ discovered = <<>>

\* MetricDefinitionsView(namespace, name, tables)
MetricDefinitionsView(ns, nm, tbls) ==
    /\ namespace' = ns
    /\ name' = nm
    /\ tables' = tbls
    /\ calls' = 0
    /\ result' = <<>>
    /\ previous' = <<>>
    /\ base_resolved' = FALSE
    /\ raised' = FALSE
    /\ UNCHANGED <<configs, discovered>>

Construct ==
    \E ns \in Namespaces, nm \in ViewNames, tbls \in TableLists :
        MetricDefinitionsView(ns, nm, tbls)

from_dict ==
    \E ns \in Namespaces, nm \in ViewNames, definition \in ViewDicts :
        MetricDefinitionsView(ns, nm, Get(definition, "tables", <<>>))

\* from_db_views yields no view, whatever the database views are.
from_db_views ==
    /\ discovered' = <<>>
    /\ UNCHANGED <<configs, namespace, name, tables, calls, result, previous,
                   base_resolved, raised>>

\* Mutant of ToLookml: the call consumes the table it resolves
\* (self.tables.pop(0)).
ToLookml_pops_table ==
    /\ calls < MaxCalls
    /\ calls' = calls + 1
    /\ raised' = to_lookml_raises(namespace, name, tables)
    /\ result' = IF to_lookml_raises(namespace, name, tables) THEN <<>>
                 ELSE <<to_lookml(namespace, name, tables)>>
    /\ previous' = result
    /\ base_resolved' = to_lookml_resolves_base(namespace, name, tables)
    /\ tables' = IF to_lookml_resolves_base(namespace, name, tables)
                 THEN Tail(tables) ELSE tables
    /\ UNCHANGED <<configs, namespace, name, discovered>>

\* One call of to_lookml on the view; calls counts the calls since the view
\* was constructed, previous is what the call before returned.
ToLookml ==
    /\ calls < MaxCalls
    /\ calls' = calls + 1
    /\ raised' = to_lookml_raises(namespace, name, tables)
    /\ result' = IF to_lookml_raises(namespace, name, tables) THEN <<>>
                 ELSE <<to_lookml(namespace, name, tables)>>
    /\ previous' = result
    /\ base_resolved' = to_lookml_resolves_base(namespace, name, tables)
    /\ UNCHANGED <<configs, namespace, name, tables, discovered>>

Next == Construct \/ from_dict \/ from_db_views \/ ToLookml

Spec == Init /\ [][Next]_vars

(***************************************************************************)
(* Reading a result: the returned record, its view, and the pieces of the  *)
(* SQL text.                                                               *)
(***************************************************************************)
Called == calls > 0 /\ Len(result) = 1

NonEmpty == Called /\ "views" \in DOMAIN result[1]

View == result[1].views[1]

Sql == View.derived_table.sql

\* The least position at which sep occurs in s, 0 when it does not.
IndexOf(s, sep) ==
    LET at == {i \in 1..(Len(s) + 1 - Len(sep)) :
                  SubSeq(s, i, i + Len(sep) - 1) = sep}
    IN  IF at = {} THEN 0 ELSE CHOOSE i \in at : \A j \in at : i <= j

\* The pieces of s that end with sep, without sep; a rest that does not end
\* with sep is the last piece.
RECURSIVE SplitOn(_, _)
SplitOn(s, sep) ==
    IF s = "" THEN <<>>
    ELSE LET i == IndexOf(s, sep)
         IN  IF i = 0 THEN <<s>>
             ELSE <<SubSeq(s, 1, i - 1)>>
                  \o SplitOn(SubSeq(s, i + Len(sep), Len(s)), sep)

\* What follows the last occurrence of sep in s.
RECURSIVE AfterLast(_, _)
AfterLast(s, sep) ==
    LET i == IndexOf(s, sep)
    IN  IF i = 0 THEN s ELSE AfterLast(SubSeq(s, i + Len(sep), Len(s)), sep)

\* The positions of a piece in the SQL text.
Positions(piece) == {i \in DOMAIN Sql : Sql[i] = piece}

Last(S) == CHOOSE i \in S : \A j \in S : j <= i

Range(s) == {s[i] : i \in DOMAIN s}

NoDuplicates(s) == \A i, j \in DOMAIN s : s[i] = s[j] => i = j

\* The columns between SELECT and the client_id column: the metric columns
\* and the base-field columns.
SqlMetricColumns == SplitOn(Sql[Last(Positions("SELECT")) + 1], ",\n")

SqlBaseColumns == SplitOn(Sql[Last(Positions("SELECT")) + 2], ",\n")

SqlGroupBy ==
    SplitOn(Sql[Last(Positions("GROUP BY")) + 1], ",\n")
    \o SubSeq(Sql, Last(Positions("GROUP BY")) + 2, Len(Sql))

\* The clause that bounds m by the date range is the last BETWEEN of the
\* text: the keyword that introduces it and the column it bounds.
BoundingKeyword == Sql[Last(Positions("BETWEEN")) - 2]

BoundedColumn == Sql[Last(Positions("BETWEEN")) - 1]

(***************************************************************************)
(* What the specification says of the current view and registry.           *)
(***************************************************************************)
HasPlatform == namespace = RegisteredNamespace /\ configs.platform # <<>>

HasDataSource ==
    /\ namespace = RegisteredNamespace
    /\ \E i \in DOMAIN configs.data_sources :
           Prefix \o configs.data_sources[i].name = name
           \/ (~StartsWith(name, Prefix)
               /\ configs.data_sources[i].name = name)

TheDataSource ==
    CHOOSE d \in Range(configs.data_sources) :
        Prefix \o d.name = name \/ (~StartsWith(name, Prefix) /\ d.name = name)

AllMetrics ==
    IF HasPlatform THEN Range(configs.platform[1].metrics.definitions) ELSE {}

\* The metrics of the view: select expression present, data source equal to
\* the view's, type not histogram.
FilteredMetrics ==
    {m \in AllMetrics :
        /\ m.select_expression # ""
        /\ Prefix \o m.data_source.name = name
           \/ (~StartsWith(name, Prefix) /\ m.data_source.name = name)
        /\ m.type # "histogram"}

FilteredSlugs == {m.slug : m \in FilteredMetrics}

FixedIgnored == {"client_id", "submission_date", "submission", "first_run"}

ExclusionList == FixedIgnored \cup FilteredSlugs

BaseView == TableView_to_lookml(namespace, "base_view", tables).views[1]

\* The fields of the base view outside the exclusion list, in order.
KeptBaseFields(fields) ==
    LET Kept(f) == f.name \notin ExclusionList IN SelectSeq(fields, Kept)

(***************************************************************************)
(* Claims.                                                                 *)
(***************************************************************************)
\* C1: to_lookml returns {} (raising nothing and resolving no base table)
\* whenever the namespace has no platform definitions, or the view's data
\* source has no definition, or no metric passes the filter; in every other
\* case it returns exactly one view, named as the view object.
C1_EmptyExactlyWhenNothingToRender ==
    calls > 0 =>
        /\ ~raised
        /\ Called
        /\ (~HasPlatform \/ ~HasDataSource \/ FilteredMetrics = {})
           => /\ result[1] = <<>>
              /\ DOMAIN result[1] = {}
              /\ ~base_resolved
        /\ (HasPlatform /\ HasDataSource /\ FilteredMetrics # {})
           => /\ DOMAIN result[1] \cap {"views"} = {"views"}
              /\ Len(result[1].views) = 1
              /\ result[1].views[1].name = name

\* C1 witness: a call on a view with a table returned {} although the
\* namespace and the data source are defined, because every metric of the
\* data source is filtered out and at least one of them is a histogram.
C1_Witness ==
    /\ Called
    /\ result[1] = <<>>
    /\ HasPlatform
    /\ HasDataSource
    /\ tables # <<>>
    /\ \E m \in AllMetrics :
           /\ m.type = "histogram"
           /\ m.select_expression # ""
           /\ Prefix \o m.data_source.name = name

\* C2: in every non-empty result the slugs of the "<expression> AS <slug>"
\* columns of the SQL, the slugs of the metric dimensions and the slugs the
\* exclusion list adds to its four fixed names are the same set: the slugs
\* of the metrics that pass the filter.
C2_FilterSitesAgree ==
    NonEmpty =>
        LET sqlSlugs == {AfterLast(SqlMetricColumns[i], " AS ") :
                            i \in DOMAIN SqlMetricColumns}
            metricDimensions ==
                {View.dimensions[i].name :
                    i \in {j \in DOMAIN View.dimensions :
                              View.dimensions[j].group_label = "Metrics"}}
            ignored == ignore_base_fields(namespace, name)
            ignoredSlugs == Range(SubSeq(ignored, 5, Len(ignored)))
        IN  /\ sqlSlugs = metricDimensions
            /\ metricDimensions = ignoredSlugs
            /\ ignoredSlugs = FilteredSlugs
            /\ Range(SubSeq(ignored, 1, 4)) = FixedIgnored
            /\ Len(SqlMetricColumns) = Cardinality(FilteredSlugs)

\* C2 witness: a non-empty result for a namespace that defines two metric
\* slugs of which only one passes the filter.
C2_Witness ==
    /\ NonEmpty
    /\ Cardinality(AllMetrics) = 2
    /\ Cardinality(FilteredSlugs) = 1
    /\ \E m \in AllMetrics \ FilteredMetrics : m.type = "histogram"

\* C3: with a base table, every dimension and dimension group of the base
\* view whose name is outside the exclusion list appears in the view with
\* group_label "Base Fields", after the metric-derived entries, and no base
\* field named in the exclusion list is among the appended fields.
C3_BaseFieldsAppended ==
    (NonEmpty /\ tables # <<>>) =>
        LET own == 1 + Cardinality(FilteredSlugs)
            appendedDimensions ==
                SubSeq(View.dimensions, own + 1, Len(View.dimensions))
            appendedGroups ==
                SubSeq(View.dimension_groups, 2, Len(View.dimension_groups))
            Appended(fields, appended) ==
                /\ \A i \in DOMAIN fields :
                       fields[i].name \notin ExclusionList
                       => \E j \in DOMAIN appended :
                              /\ appended[j].name = fields[i].name
                              /\ appended[j].group_label = "Base Fields"
                              /\ appended[j].sql = fields[i].sql
                /\ \A j \in DOMAIN appended :
                       /\ appended[j].name \notin ExclusionList
                       /\ appended[j].group_label = "Base Fields"
                /\ Len(appended) = Len(KeptBaseFields(fields))
        IN  /\ Len(View.dimensions) >= own
            /\ View.dimensions[1].name = "client_id"
            /\ \A i \in 2..own :
                   /\ View.dimensions[i].name \in FilteredSlugs
                   /\ View.dimensions[i].group_label = "Metrics"
            /\ View.dimension_groups[1].name = "submission"
            /\ View.dimension_groups[1].sql
                   = "CAST(${TABLE}.analysis_basis AS TIMESTAMP)"
            /\ Appended(BaseView.dimensions, appendedDimensions)
            /\ Appended(BaseView.dimension_groups, appendedGroups)

\* C3 witness: a non-empty result with a base table of which one dimension
\* is excluded because it is a filtered metric slug, others are excluded by
\* the fixed names, and a dimension and a dimension group are appended.
C3_Witness ==
    /\ NonEmpty
    /\ tables # <<>>
    /\ "uri_count" \in FilteredSlugs
    /\ "uri_count" \in Names(BaseView.dimensions)
    /\ "client_id" \in Names(BaseView.dimensions)
    /\ "submission" \in Names(BaseView.dimension_groups)
    /\ \E i \in DOMAIN View.dimensions :
           /\ View.dimensions[i].name = "country"
           /\ View.dimensions[i].group_label = "Base Fields"
    /\ \E i \in DOMAIN View.dimension_groups :
           /\ View.dimension_groups[i].name = "first_seen"
           /\ View.dimension_groups[i].group_label = "Base Fields"

\* The names of the measures of the view that belong to the metric slug.
MeasuresOf(slug) ==
    {i \in DOMAIN View.measures : StartsWith(View.measures[i].name, slug \o "_")}

SetFields == View.sets[1].fields

\* C4 as stated: in every non-empty result, with or without a base table,
\* the view has exactly one set, named metrics, whose fields are exactly
\* the names of all dimensions of the returned view except client_id and
\* the names of all its measures, no name twice.
C4_SetListsAllViewFields ==
    NonEmpty =>
        /\ Len(View.sets) = 1
        /\ View.sets[1].name = "metrics"
        /\ Range(SetFields)
               = (Names(View.dimensions) \ {"client_id"})
                 \cup Names(View.measures)
        /\ NoDuplicates(SetFields)

\* C4 as amended: in every non-empty result the view has exactly one set,
\* named metrics, whose fields are the names of the metric dimensions (the
\* dimensions other than client_id and the appended base fields) followed by
\* the names of the measures of those metric dimensions, no name twice;
\* without a base table these are all dimensions except client_id and all
\* measures of the returned view.
C4_SetListsMetricFields ==
    NonEmpty =>
        LET own == 1 + Cardinality(FilteredSlugs)
            OfMetric(measure) ==
                \E slug \in FilteredSlugs :
                    /\ StartsWith(measure.name, slug \o "_")
                    /\ measure.sql # "${TABLE}." \o slug
                       => measure.type = "count_distinct"
            metricDimensions == SubSeq(View.dimensions, 2, own)
            metricMeasures == get_measures(namespace, metricDimensions)
        IN  /\ Len(View.sets) = 1
            /\ View.sets[1].name = "metrics"
            /\ SetFields
                   = NameList(metricDimensions) \o NameList(metricMeasures)
            /\ Names(metricDimensions) = FilteredSlugs
            /\ \A i \in DOMAIN metricMeasures :
                   /\ OfMetric(metricMeasures[i])
                   /\ In(metricMeasures[i], View.measures)
            /\ "client_id" \notin Range(SetFields)
            /\ NoDuplicates(SetFields)
            /\ tables = <<>>
               => /\ Range(SetFields)
                        = (Names(View.dimensions) \ {"client_id"})
                          \cup Names(View.measures)
                  /\ Len(SetFields)
                        = Len(View.dimensions) - 1 + Len(View.measures)

\* C4 witness: a non-empty result with a base table whose dimensions were
\* appended to the view, and with a set that lists a metric dimension and
\* its measures.
C4_Witness ==
    /\ NonEmpty
    /\ tables # <<>>
    /\ Len(View.dimensions) > 1 + Cardinality(FilteredSlugs)
    /\ SetFields = <<"active_hours", "active_hours_sum",
                     "active_hours_client_count">>

\* C5: for every metric of the view with statistics S, the measures hold
\* exactly one measure per kind of S that is sum or client_count, named
\* <slug>_sum (type sum) and <slug>_client_count (type count_distinct), and
\* nothing for any other kind: two measures for {sum, client_count}, none
\* for a metric without statistics.
C5_MeasuresPerStatistic ==
    NonEmpty =>
        \A m \in FilteredMetrics :
            LET S == Range(m.statistics)
                Named(n) == {i \in DOMAIN View.measures :
                                View.measures[i].name = n}
                own == get_measures(
                           namespace,
                           <<[name |-> m.slug, label |-> m.slug]>>)
            IN  /\ Cardinality(Named(m.slug \o "_sum"))
                       = IF "sum" \in S THEN 1 ELSE 0
                /\ Cardinality(Named(m.slug \o "_client_count"))
                       = IF "client_count" \in S THEN 1 ELSE 0
                /\ \A i \in Named(m.slug \o "_sum") :
                       View.measures[i].type = "sum"
                /\ \A i \in Named(m.slug \o "_client_count") :
                       View.measures[i].type = "count_distinct"
                /\ Cardinality(MeasuresOf(m.slug))
                       = Cardinality(S \cap {"sum", "client_count"})
                /\ Len(own) = Cardinality(S \cap {"sum", "client_count"})
                /\ ~raised

\* C5 witness: a non-empty result with one metric that declares sum and
\* client_count and has exactly its two measures, and another that declares
\* an unrecognised kind beside client_count and has exactly one.
C5_Witness ==
    /\ NonEmpty
    /\ \E m \in FilteredMetrics :
           /\ m.statistics = <<"sum", "client_count">>
           /\ Cardinality(MeasuresOf(m.slug)) = 2
    /\ \E m \in FilteredMetrics :
           /\ m.statistics = <<"client_count", "median">>
           /\ Cardinality(MeasuresOf(m.slug)) = 1

C7_BaseColumnsQualified ==
    (NonEmpty /\ tables # <<>>) =>
        LET kept == KeptBaseFields(BaseView.dimensions)
        IN  /\ SqlBaseColumns = [i \in DOMAIN kept |-> "base." \o kept[i].name]
            /\ SqlGroupBy
                   = NameList(kept) \o <<"client_id,", "analysis_basis">>

\* C8: the clause bounding m by the date range is introduced by WHERE
\* exactly when the table list is empty (then there is no INNER JOIN and no
\* base-field column) and by AND exactly when a base table is supplied
\* (after the INNER JOIN and its WHERE base.submission_date BETWEEN), so
\* that the query holds exactly one WHERE keyword.
C8_OneWhere ==
    NonEmpty =>
        /\ BoundingKeyword = "WHERE" <=> tables = <<>>
        /\ BoundingKeyword = "AND" <=> tables # <<>>
        /\ Cardinality(Positions("WHERE")) = 1
        /\ StartsWith(BoundedColumn, "m.")
        /\ tables = <<>>
           => /\ Positions("INNER JOIN") = {}
              /\ SqlBaseColumns = <<>>
        /\ tables # <<>>
           => /\ Cardinality(Positions("INNER JOIN")) = 1
              /\ \E i \in Positions("WHERE") :
                     /\ Last(Positions("INNER JOIN")) < i
                     /\ i < Last(Positions("BETWEEN")) - 2
                     /\ Sql[i + 1] = "base.submission_date"
                     /\ Sql[i + 2] = "BETWEEN"

\* C8 witness: a non-empty result with a base table, whose bounding clause
\* is introduced by AND after the join's WHERE.
C8_Witness ==
    /\ NonEmpty
    /\ tables # <<>>
    /\ BoundingKeyword = "AND"
    /\ Cardinality(Positions("INNER JOIN")) = 1

\* C9: the column of m bounded by the date range is m's date column: the
\* data source's submission-date override when set, submission_date
\* otherwise, the column of the analysis_basis branches, of the join
\* condition and of the date_start and date_end placeholders.
C9_BoundsDateColumn ==
    NonEmpty =>
        LET column == Or(TheDataSource.submission_date_column,
                         "submission_date")
        IN  /\ Sql[Last(Positions("{% else %}")) - 9]
                   = "m." \o column \o " AS analysis_basis"
            /\ Sql[Last(Positions("BETWEEN")) + 2]
                   = "{% date_start " \o column \o " %}"
            /\ Sql[Last(Positions("BETWEEN")) + 6]
                   = "{% date_end " \o column \o " %}"
            /\ BoundedColumn = "m." \o column

\* C10: every measure of the returned view is <slug>_sum or
\* <slug>_client_count of a metric that passes the filter; the client_id
\* dimension and the appended base dimensions yield no measure.
C10_MeasuresOfFilteredMetrics ==
    NonEmpty =>
        \A i \in DOMAIN View.measures :
            \E slug \in FilteredSlugs :
                View.measures[i].name
                    \in {slug \o "_sum", slug \o "_client_count"}

====
